---- MODULE Spec2Model ----
\* A model of AutoStile<Args...> (contrib/autowiring/autowiring/AutoStile.h):
\* the stile that calls a slave context as though it were an AutoFilter of the
\* master context.  The state is the stile's m_slave_factory, the contexts and
\* their AutoPacketFactory objects, the callbacks handed to
\* NotifyWhenAutowired, and the master and slave packets of each AutoFilter call.
EXTENDS Integers, Sequences, FiniteSets, TLC

\* ---------------------------------------------------------------- bounds
\* Number of Leash calls made after the constructor's own.
MaxLeash == 1
\* Number of master packets on which AutoFilter is called.
MaxInvoke == 1

\* ------------------------------------------------------------ vocabulary
\* Two contexts a stile can be leashed to; B is a child context of A.
Contexts == {"A", "B"}
Parent(c) == IF c = "B" THEN "A" ELSE "none"
\* The value of an empty shared_ptr / weak_ptr, and of "no context".
NoFactory == "none"

\* A decoration absent from a packet.
Absent == 0
Types == {"Int", "Float", "Tag", "Ptr"}
TypeVals(t) == IF t = "Int" THEN {7} ELSE IF t = "Float" THEN {314, 271} ELSE {1}
\* A decoration of type Ptr is a std::shared_ptr: its value here is the identity
\* of the object it refers to, and heap holds the object's value.  Master packet
\* k refers to object k; the objects above MaxInvoke are there for copies.
Objects == 1..(2 * MaxInvoke)
SharedVals == {7, 8}
NoDecorations == [t \in Types |-> Absent]

\* auto_arg<T>::is_input / is_output of the declared parameters Args...
InInt == [dir |-> "in", type |-> "Int"]
OutFloat == [dir |-> "out", type |-> "Float"]
InShared == [dir |-> "in", type |-> "Ptr"]
ArgLists == {<< >>, <<InInt>>, <<InInt, OutFloat>>, <<InShared>>}

VARIABLES
  Args,             \* the template parameter pack of this stile
  ctxAlive,         \* ctxAlive[c]: the CoreContext c has not been destroyed
  factory,          \* factory[c]: "none", "live" or "dead" AutoPacketFactory of c
  m_slave_factory,  \* the weak_ptr: [ptr, ctrl], each the owner of a factory or NoFactory
  subs,             \* the callbacks given to NotifyWhenAutowired, in order
  nLeash,           \* Leash calls made after construction
  current,          \* index in subs of the callback of the latest Leash, 0 if it gave none
  boundBy,          \* index in subs of the callback that last assigned m_slave_factory, 0 if none
  cleared,          \* no callback has run since the last Leash
  frame,            \* frame[k]: "idle", "ready", "inCall", "returned", or "noop" (returned unbound)
  master_packet,    \* master_packet[k]: the decorations of master packet k
  slave_packet,     \* slave_packet[k]: the slave packet made by call k
  master_data,      \* master_data[k][i]: the value held by argument i of call k
  writes,           \* writes[k][i]: assignments made through the reference to output argument i
  race,             \* the word-by-word accesses to m_slave_factory in progress
  stileAlive,       \* the AutoStile object has not been destroyed
  masterRefs,       \* masterRefs[k]: the holders of a shared_ptr to master packet k
  heap              \* heap[o]: the value of shared object o

vars == <<Args, ctxAlive, factory, m_slave_factory, subs, nLeash, current, boundBy, cleared,
          frame, master_packet, slave_packet, master_data, writes, race, heap, masterRefs,
          stileAlive>>

bindVars == <<ctxAlive, factory, m_slave_factory, subs, nLeash, current, boundBy, cleared>>
callVars == <<frame, master_packet, slave_packet, master_data, writes>>

Calls == 1..MaxInvoke

\* ------------------------------------------------------- weak_ptr helpers
\* A weak_ptr is a pair of words: the object pointer and the control block.
WeakTo(f) == [ptr |-> f, ctrl |-> f]
EmptyWeak == WeakTo(NoFactory)

\* Mutant of Lock: the stored pointer is used without asking whether it expired.
LockUnchecked(w) == w.ptr

\* std::weak_ptr::lock(): the object if the control block says it is alive.
Lock(w) == IF w.ctrl # NoFactory /\ factory[w.ctrl] = "live" THEN w.ptr ELSE NoFactory

\* The stile is bound: m_slave_factory.lock() is not null.
Bound == Lock(m_slave_factory) # NoFactory

\* ------------------------------------------------- context registry (external)
\* CoreContext::FindByTypeRecursive: the factory of the context, else of an ancestor.
FindByTypeRecursive(c) ==
  IF factory[c] = "live" THEN c
  ELSE IF Parent(c) # "none" /\ factory[Parent(c)] = "live" THEN Parent(c)
  ELSE NoFactory

\* NotifyWhenAutowired's condition: a factory became available in c or an ancestor.
Autowired(c) ==
  factory[c] # "none" \/ (Parent(c) # "none" /\ factory[Parent(c)] # "none")

\* ------------------------------------------------------------------ Init
\* No store to m_slave_factory and no lock() of it is under way.
\* w: the store under way ("idle", "leash", "notify"), its argument and its value;
\* r: the lock() under way ("idle", "mid"), the call making it, the words it has
\* loaded, and whether a lock() has completed.
NoRace == [w |-> "idle", wctx |-> "none", wsub |-> 0, wval |-> EmptyWeak,
           r |-> "idle", rcall |-> 0, rval |-> EmptyWeak, rdone |-> FALSE]

NoPacket == [from |-> NoFactory, alive |-> FALSE, final |-> FALSE,
             decs |-> NoDecorations, recips |-> << >>]

Init ==
  /\ Args \in ArgLists
  /\ ctxAlive = [c \in Contexts |-> TRUE]
  /\ factory = [c \in Contexts |-> "none"]
  /\ m_slave_factory = EmptyWeak
  \* AutoStile(slave_context): the constructor calls Leash on an empty
  \* reference (the default argument) or on a live context.
  /\ \/ subs = << >> /\ current = 0
     \/ \E c \in Contexts : subs = <<[ctx |-> c, state |-> "pending"]>> /\ current = 1
  /\ nLeash = 0
  /\ boundBy = 0
  /\ cleared = TRUE
  /\ frame = [k \in Calls |-> "idle"]
  /\ master_packet = [k \in Calls |-> NoDecorations]
  /\ slave_packet = [k \in Calls |-> NoPacket]
  /\ master_data = [k \in Calls |-> [i \in DOMAIN Args |-> Absent]]
  /\ writes = [k \in Calls |-> [i \in DOMAIN Args |-> 0]]
  /\ race = NoRace
  /\ heap = [o \in Objects |-> 7]
  /\ masterRefs = [k \in Calls |-> {"pipeline"}]
  /\ stileAlive = TRUE

\* ------------------------------------------------- contexts (external)
\* An AutoPacketFactory is added to a live context.
AddFactory(c) ==
  /\ ctxAlive[c]
  /\ factory[c] = "none"
  /\ factory' = [factory EXCEPT ![c] = "live"]
  /\ UNCHANGED <<Args, stileAlive, masterRefs, heap, race, ctxAlive, m_slave_factory, subs, nLeash, current, boundBy, cleared>>
  /\ UNCHANGED callVars

\* A context is torn down, after its children (a child holds its parent); the
\* weak references to it expire.
TearDown(c) ==
  /\ ctxAlive[c]
  /\ \A d \in Contexts : Parent(d) = c => ~ctxAlive[d]
  /\ ctxAlive' = [ctxAlive EXCEPT ![c] = FALSE]
  /\ UNCHANGED <<Args, stileAlive, masterRefs, heap, race, factory, m_slave_factory, subs, nLeash, current, boundBy, cleared>>
  /\ UNCHANGED callVars

\* Mutant of StileOwns: m_slave_factory is a shared_ptr.
StileOwnsShared(c) ==
  \/ m_slave_factory.ptr = c
  \/ \E k \in Calls : frame[k] = "inCall" /\ slave_packet[k].from = c

\* The stile holds a shared_ptr to factory c: never through m_slave_factory,
\* which is a weak_ptr, and inside a bound AutoFilter through the local
\* slave_factory that lock() returned.
StileOwns(c) ==
  \E k \in Calls : frame[k] = "inCall" /\ slave_packet[k].from = c

\* The last owner of the factory of a torn-down context lets go of it.
DestroyFactory(c) ==
  /\ ~ctxAlive[c]
  /\ factory[c] = "live"
  /\ ~StileOwns(c)
  /\ factory' = [factory EXCEPT ![c] = "dead"]
  /\ UNCHANGED <<Args, stileAlive, masterRefs, heap, race, ctxAlive, m_slave_factory, subs, nLeash, current, boundBy, cleared>>
  /\ UNCHANGED callVars

\* ------------------------------------------------------------------ Leash
\* The subscriptions after Leash(c): one more iff c.lock() succeeds.
LeashSubs(c) ==
  IF ctxAlive[c] THEN Append(subs, [ctx |-> c, state |-> "pending"]) ELSE subs

\* Mutant of LeashReset: Leash without m_slave_factory.reset().
LeashNoReset == m_slave_factory

\* m_slave_factory after the first statement of Leash.
LeashReset == EmptyWeak

\* void Leash(std::weak_ptr<CoreContext> slave_context)
Leash(c) ==
  /\ stileAlive
  /\ nLeash < MaxLeash
  /\ nLeash' = nLeash + 1
  /\ m_slave_factory' = LeashReset
  /\ boundBy' = IF m_slave_factory' = EmptyWeak THEN 0 ELSE boundBy
  /\ cleared' = TRUE
  /\ subs' = LeashSubs(c)
  /\ current' = IF Len(subs') > Len(subs) THEN Len(subs') ELSE 0
  /\ UNCHANGED <<Args, stileAlive, masterRefs, heap, race, ctxAlive, factory>>
  /\ UNCHANGED callVars

\* Mutant of NotifyLocks: the callback does not look at its context again.
NotifyNoRecheck(i) == TRUE

\* Callback i gets past its check: slave_context.lock() gives a context.
NotifyLocks(i) == ctxAlive[subs[i].ctx]

\* Mutant of NotifyTarget: the callback finds the factory but does not store it.
NotifyKeeps(i) == m_slave_factory

\* The factory reference after callback i has run.
NotifyTarget(i) ==
  IF NotifyLocks(i)
  THEN WeakTo(FindByTypeRecursive(subs[i].ctx))
  ELSE m_slave_factory

\* Mutant of CallbackCalls: the callback replays the calls that found the stile unbound.
CallbackReplays ==
  /\ frame' = [k \in Calls |-> IF frame[k] = "noop" THEN "ready" ELSE frame[k]]
  /\ UNCHANGED <<master_packet, slave_packet, master_data, writes>>

\* What the lambda does to AutoFilter calls and packets: its body refers to
\* slave_context and m_slave_factory only.
CallbackCalls == UNCHANGED callVars

\* The outcomes of m_slave_factory = slave_factory through the captured this:
\* on a live stile the member is assigned; on a destroyed one the store goes to
\* memory that is no longer the stile's, and what the member's bytes hold
\* afterwards is not defined.
NotifyStores(i) ==
  IF stileAlive \/ ~NotifyLocks(i) THEN {NotifyTarget(i)}
  ELSE {NotifyTarget(i), m_slave_factory}

\* The lambda given to NotifyWhenAutowired runs, once.
Notify(i) ==
  /\ i \in DOMAIN subs
  /\ subs[i].state = "pending"
  /\ Autowired(subs[i].ctx)
  /\ subs' = [subs EXCEPT ![i].state = IF NotifyLocks(i) THEN "fired" ELSE "stale"]
  /\ m_slave_factory' \in NotifyStores(i)
  /\ boundBy' = IF NotifyLocks(i) THEN i ELSE boundBy
  /\ cleared' = FALSE
  /\ UNCHANGED <<Args, stileAlive, masterRefs, heap, race, ctxAlive, factory, nLeash, current>>
  /\ CallbackCalls

\* ------------------------------------------------------ packets (external)
\* AutoPacket::ForwardAll: every decoration of src the target does not already own.
ForwardAll(src, target) ==
  [t \in Types |-> IF target[t] # Absent THEN target[t] ELSE src[t]]

\* The master pipeline decorates its next packet, which makes AutoFilter runnable.
MasterDecorate(k, v) ==
  /\ frame[k] = "idle"
  /\ \A j \in Calls : j < k => frame[j] # "idle"
  /\ v \in TypeVals("Int")
  /\ master_packet' = [master_packet EXCEPT ![k]["Int"] = v, ![k]["Ptr"] = k]
  /\ frame' = [frame EXCEPT ![k] = "ready"]
  /\ UNCHANGED <<Args, stileAlive, masterRefs, heap, race, slave_packet, master_data, writes>>
  /\ UNCHANGED bindVars

\* The master pipeline changes the object its packet's shared_ptr refers to.
MasterMutate(k, v) ==
  /\ master_packet[k]["Ptr"] # Absent
  /\ v \in SharedVals
  /\ heap[master_packet[k]["Ptr"]] # v
  /\ heap' = [heap EXCEPT ![master_packet[k]["Ptr"]] = v]
  /\ UNCHANGED <<Args, stileAlive, masterRefs, race, frame, master_packet, slave_packet, master_data, writes>>
  /\ UNCHANGED bindVars

\* ------------------------------------------------------------ AutoFilter
\* The arguments Args... data of a call on master packet k: an input holds the
\* master's decoration, an auto_out holds a slot not yet written.
CallData(k) ==
  [i \in DOMAIN Args |->
     IF Args[i].dir = "in" THEN master_packet[k][Args[i].type] ELSE Absent]

\* Mutant of InputDecorations: a shared input is decorated as a copy of its object.
InputDecorationsCopy(data) ==
  [t \in Types |->
     IF \E i \in DOMAIN Args : Args[i].dir = "in" /\ Args[i].type = t
     THEN LET d == data[CHOOSE i \in DOMAIN Args : Args[i].dir = "in" /\ Args[i].type = t]
          IN IF t = "Ptr" THEN d + MaxInvoke ELSE d
     ELSE Absent]

\* DecorationStile, input overload, over the whole pack: slave_packet->Decorate(master_data).
InputDecorations(data) ==
  [t \in Types |->
     IF \E i \in DOMAIN Args : Args[i].dir = "in" /\ Args[i].type = t
     THEN data[CHOOSE i \in DOMAIN Args : Args[i].dir = "in" /\ Args[i].type = t]
     ELSE Absent]

\* Mutant of DecorationStileOut: the recipient is added twice.
DecorationStileOutTwice(i) ==
  <<[kind |-> "extract", arg |-> i, state |-> "pending", val |-> Absent, holds |-> FALSE],
    [kind |-> "extract", arg |-> i, state |-> "pending", val |-> Absent, holds |-> FALSE]>>

\* DecorationStile, output overload: one recipient of slave_in_type for argument i.
DecorationStileOut(i) ==
  <<[kind |-> "extract", arg |-> i, state |-> "pending", val |-> Absent, holds |-> FALSE]>>

\* Mutant of Dispatch: the pack expansion adds no recipient.
DispatchNone(i) == << >>

\* The pack expansion DecorationStile<Args>(...)... from argument i on.
RECURSIVE Dispatch(_)
Dispatch(i) ==
  IF i > Len(Args) THEN << >>
  ELSE (IF Args[i].dir = "out" THEN DecorationStileOut(i) ELSE << >>) \o Dispatch(i + 1)

\* Mutant of ForwardAllPolicy: var_or in place of var_and.
ForwardAnyInput == \E i \in DOMAIN Args : Args[i].dir = "in"

\* var_and<auto_arg<Args>::is_input...>::value
ForwardAllPolicy == \A i \in DOMAIN Args : Args[i].dir = "in"

\* Mutant of ForwardStile: the lambda captures master_packet by reference.
ForwardStileByRef ==
  <<[kind |-> "forward", arg |-> 0, state |-> "pending", val |-> Absent, holds |-> FALSE]>>

\* ForwardStile: one recipient of const AutoPacket&; its lambda captures
\* master_packet by value, so the closure holds a shared_ptr to the master packet.
ForwardStile ==
  <<[kind |-> "forward", arg |-> 0, state |-> "pending", val |-> Absent, holds |-> TRUE]>>

\* The recipients a bound AutoFilter call adds to its slave packet.
Recipients == Dispatch(1) \o (IF ForwardAllPolicy THEN ForwardStile ELSE << >>)

\* The holders the closures among recips add to the master packet.
ClosureRefs(recips) ==
  IF \E j \in DOMAIN recips : recips[j].holds THEN {"closure"} ELSE {}

\* The master packet is alive while some shared_ptr to it exists.
MasterAlive(k) == masterRefs[k] # {}

\* The slave packet a call on master packet k makes from factory f.
NewSlave(k, f) ==
  [from |-> f, alive |-> TRUE, final |-> FALSE,
   decs |-> InputDecorations(CallData(k)), recips |-> Recipients]

\* AutoFilter once m_slave_factory.lock() has loaded the weak_ptr value w.
AutoFilterBody(k, w) ==
  /\ LET slave_factory == Lock(w) IN
       IF slave_factory = NoFactory
       THEN /\ frame' = [frame EXCEPT ![k] = "noop"]
            /\ UNCHANGED <<slave_packet, master_data, masterRefs>>
       ELSE /\ frame' = [frame EXCEPT ![k] = "inCall"]
            /\ master_data' = [master_data EXCEPT ![k] = CallData(k)]
            /\ slave_packet' = [slave_packet EXCEPT ![k] = NewSlave(k, slave_factory)]
            /\ masterRefs' = [masterRefs EXCEPT ![k] =
                                @ \cup {"frame"} \cup ClosureRefs(slave_packet'[k].recips)]
  /\ UNCHANGED <<Args, stileAlive, heap, master_packet, writes>>
  /\ UNCHANGED bindVars

\* void AutoFilter(AutoPacket& packet, Args... data), up to its closing brace.
AutoFilter(k) ==
  /\ stileAlive
  /\ frame[k] = "ready"
  /\ \A j \in Calls : frame[j] # "inCall"
  /\ AutoFilterBody(k, m_slave_factory)
  /\ UNCHANGED race

\* Mutant of AwaitsSlave: AutoFilter waits until its recipients have run.
AwaitsSlaveRecipients(k) ==
  \E j \in DOMAIN slave_packet[k].recips : slave_packet[k].recips[j].state = "pending"

\* What AutoFilter waits for between adding the recipients and its closing
\* brace: the body has no wait, join or loop, only the AddRecipient calls.
AwaitsSlave(k) == FALSE

\* AutoFilter returns: data, master_packet and slave_packet (its locals) are destroyed.
AutoFilterReturn(k) ==
  /\ frame[k] = "inCall"
  /\ ~AwaitsSlave(k)
  /\ frame' = [frame EXCEPT ![k] = "returned"]
  /\ masterRefs' = [masterRefs EXCEPT ![k] = @ \ {"frame"}]
  /\ UNCHANGED <<Args, stileAlive, heap, race, master_packet, slave_packet, master_data, writes>>
  /\ UNCHANGED bindVars

\* The master pipeline is done with packet k and drops its shared_ptr to it.
MasterRelease(k) ==
  /\ frame[k] \in {"returned", "noop"}
  /\ "pipeline" \in masterRefs[k]
  /\ masterRefs' = [masterRefs EXCEPT ![k] = @ \ {"pipeline"}]
  /\ UNCHANGED <<Args, stileAlive, heap, race, frame, master_packet, slave_packet, master_data, writes>>
  /\ UNCHANGED bindVars

\* ------------------------------------------------- slave pipeline (external)
\* The slave pipeline decorates its packet with a type it does not hold yet.
SlaveDecorate(k, t, v) ==
  /\ slave_packet[k].alive
  /\ ~slave_packet[k].final
  /\ t \in {"Float", "Tag"}
  /\ v \in TypeVals(t)
  /\ slave_packet[k].decs[t] = Absent
  /\ slave_packet' = [slave_packet EXCEPT ![k].decs[t] = v]
  /\ UNCHANGED <<Args, stileAlive, masterRefs, heap, race, frame, master_packet, master_data, writes>>
  /\ UNCHANGED bindVars

\* The slave pipeline changes the value it published.
SlaveMutate(k, v) ==
  /\ slave_packet[k].alive
  /\ v \in TypeVals("Float")
  /\ slave_packet[k].decs["Float"] \notin {Absent, v}
  /\ slave_packet' = [slave_packet EXCEPT ![k].decs["Float"] = v]
  /\ UNCHANGED <<Args, stileAlive, masterRefs, heap, race, frame, master_packet, master_data, writes>>
  /\ UNCHANGED bindVars

\* The object the lambda's [&master_data] refers to is AutoFilter's by-value
\* parameter data: it lives from the call's entry to its closing brace.
DestinationAlive(k) == frame[k] = "inCall"

\* The outcomes of *master_data = *slave_data: while AutoFilter has not returned
\* the reference captured by the lambda is valid and the assignment lands; after
\* the return it dangles, and the assignment may or may not reach the slot.
WriteLands(k) == IF frame[k] = "inCall" THEN {TRUE} ELSE BOOLEAN

\* Mutant of Registered: the recipient is held outside the slave packet.
RegisteredDetached(k, j) ==
  /\ j \in DOMAIN slave_packet[k].recips
  /\ slave_packet[k].recips[j].state \in {"pending", "dropped"}

\* slave_packet->AddRecipient: recipient j is held by slave packet k, so it can
\* run while that packet exists and it has not run yet.
Registered(k, j) ==
  /\ slave_packet[k].alive
  /\ j \in DOMAIN slave_packet[k].recips
  /\ slave_packet[k].recips[j].state = "pending"

\* The recipient added by DecorationStile (output) fires: its type is on the slave packet.
ExtractFire(k, j) ==
  /\ Registered(k, j)
  /\ slave_packet[k].recips[j].kind = "extract"
  /\ LET i == slave_packet[k].recips[j].arg
         slave_data == slave_packet[k].decs[Args[i].type]
     IN /\ slave_data # Absent
        /\ slave_packet' = [slave_packet EXCEPT ![k].recips[j].state = "fired",
                                                ![k].recips[j].val = slave_data]
        /\ writes' = [writes EXCEPT ![k][i] = @ + 1]
        /\ \E lands \in WriteLands(k) :
             master_data' = IF lands THEN [master_data EXCEPT ![k][i] = slave_data]
                            ELSE master_data
  /\ UNCHANGED <<Args, stileAlive, masterRefs, heap, race, frame, master_packet>>
  /\ UNCHANGED bindVars

\* recips with every pending recipient of the given kind moved to state s.
Settle(recips, kinds, s) ==
  [j \in DOMAIN recips |->
     IF recips[j].kind \in kinds /\ recips[j].state = "pending"
     THEN [recips[j] EXCEPT !.state = s] ELSE recips[j]]

HasPending(recips, kind) ==
  \E j \in DOMAIN recips : recips[j].kind = kind /\ recips[j].state = "pending"

\* The slave packet is finalized: the recipient added by ForwardStile fires.
SlaveFinalize(k) ==
  /\ slave_packet[k].alive
  /\ ~slave_packet[k].final
  /\ slave_packet' = [slave_packet EXCEPT
                        ![k].final = TRUE,
                        ![k].recips = Settle(@, {"forward"}, "fired")]
  /\ master_packet' =
       IF HasPending(slave_packet[k].recips, "forward")
       THEN [master_packet EXCEPT ![k] = ForwardAll(slave_packet[k].decs, @)]
       ELSE master_packet
  /\ UNCHANGED <<Args, stileAlive, masterRefs, heap, race, frame, master_data, writes>>
  /\ UNCHANGED bindVars

\* The slave packet is destroyed; the recipients that have not fired go with it.
SlaveDestroy(k) ==
  /\ slave_packet[k].alive
  /\ frame[k] = "returned"
  /\ slave_packet' = [slave_packet EXCEPT
                        ![k].alive = FALSE,
                        ![k].recips = Settle(@, {"extract", "forward"}, "dropped")]
  /\ masterRefs' = [masterRefs EXCEPT ![k] = @ \ {"closure"}]
  /\ UNCHANGED <<Args, stileAlive, heap, race, frame, master_packet, master_data, writes>>
  /\ UNCHANGED bindVars

\* The owner of the stile destroys it, outside any call on it.  AutoStile has no
\* destructor of its own: the callbacks it registered stay with their contexts.
DestroyStile ==
  /\ stileAlive
  /\ \A k \in Calls : frame[k] # "inCall"
  /\ race.w = "idle" /\ race.r = "idle"
  /\ stileAlive' = FALSE
  /\ UNCHANGED <<Args, masterRefs, heap, race>>
  /\ UNCHANGED bindVars
  /\ UNCHANGED callVars

\* ------------------------------------------------------------------ Next
Next ==
  \/ DestroyStile
  \/ \E c \in Contexts : AddFactory(c)
  \/ \E c \in Contexts : TearDown(c)
  \/ \E c \in Contexts : DestroyFactory(c)
  \/ \E c \in Contexts : Leash(c)
  \/ \E i \in 1..(MaxLeash + 1) : Notify(i)
  \/ \E k \in Calls, v \in TypeVals("Int") : MasterDecorate(k, v)
  \/ \E k \in Calls, v \in SharedVals : MasterMutate(k, v)
  \/ \E k \in Calls : AutoFilter(k)
  \/ \E k \in Calls : AutoFilterReturn(k)
  \/ \E k \in Calls : MasterRelease(k)
  \/ \E k \in Calls, t \in Types, v \in {1, 314, 271} : SlaveDecorate(k, t, v)
  \/ \E k \in Calls, v \in TypeVals("Float") : SlaveMutate(k, v)
  \/ \E k \in Calls, j \in 1..3 : ExtractFire(k, j)
  \/ \E k \in Calls : SlaveFinalize(k)
  \/ \E k \in Calls : SlaveDestroy(k)

Spec == Init /\ [][Next]_vars

\* The binding side alone: the slave pipeline's own steps read and write only the
\* packets, never the stile, so they are left out.
NextBind ==
  \/ \E c \in Contexts : AddFactory(c)
  \/ \E c \in Contexts : TearDown(c)
  \/ \E c \in Contexts : DestroyFactory(c)
  \/ \E c \in Contexts : Leash(c)
  \/ \E i \in 1..(MaxLeash + 1) : Notify(i)
  \/ \E k \in Calls, v \in TypeVals("Int") : MasterDecorate(k, v)
  \/ \E k \in Calls : AutoFilter(k)
  \/ \E k \in Calls : AutoFilterReturn(k)

SpecBind == Init /\ [][NextBind]_vars

\* NotifyWhenAutowired delivers each callback once its factory is available: the
\* callback of every subscription is eventually run.
SpecBindFair == SpecBind /\ \A i \in 1..(MaxLeash + 1) : WF_vars(Notify(i))

\* ------------------------------------------------- unsynchronised accesses
\* m_slave_factory is a plain std::weak_ptr, and AutoFilter, Leash and the
\* callback take no lock: a store is two word stores (pointer, then control
\* block) and lock() is two word loads (control block, then pointer), and the
\* threads interleave between them.

\* Leash stores the first word of m_slave_factory.reset().
LeashBegin(c) ==
  /\ stileAlive
  /\ nLeash < MaxLeash
  /\ race.w = "idle"
  /\ m_slave_factory' = [m_slave_factory EXCEPT !.ptr = LeashReset.ptr]
  /\ race' = [race EXCEPT !.w = "leash", !.wctx = c, !.wval = LeashReset]
  /\ UNCHANGED <<Args, stileAlive, masterRefs, heap, ctxAlive, factory, subs, nLeash, current, boundBy, cleared>>
  /\ UNCHANGED callVars

\* Leash stores the second word and goes on to its end.
LeashEnd ==
  /\ race.w = "leash"
  /\ nLeash' = nLeash + 1
  /\ m_slave_factory' = [m_slave_factory EXCEPT !.ctrl = race.wval.ctrl]
  /\ boundBy' = 0
  /\ cleared' = TRUE
  /\ subs' = LeashSubs(race.wctx)
  /\ current' = IF Len(subs') > Len(subs) THEN Len(subs') ELSE 0
  /\ race' = [race EXCEPT !.w = "idle", !.wctx = "none", !.wval = EmptyWeak]
  /\ UNCHANGED <<Args, stileAlive, masterRefs, heap, ctxAlive, factory>>
  /\ UNCHANGED callVars

\* Callback i passes its check and stores the first word of the assignment.
NotifyBegin(i) ==
  /\ i \in DOMAIN subs
  /\ subs[i].state = "pending"
  /\ Autowired(subs[i].ctx)
  /\ NotifyLocks(i)
  /\ race.w = "idle"
  /\ m_slave_factory' = [m_slave_factory EXCEPT !.ptr = NotifyTarget(i).ptr]
  /\ race' = [race EXCEPT !.w = "notify", !.wsub = i, !.wval = NotifyTarget(i)]
  /\ UNCHANGED <<Args, stileAlive, masterRefs, heap, ctxAlive, factory, subs, nLeash, current, boundBy, cleared>>
  /\ UNCHANGED callVars

\* The callback stores the second word and returns.
NotifyEnd ==
  /\ race.w = "notify"
  /\ m_slave_factory' = [m_slave_factory EXCEPT !.ctrl = race.wval.ctrl]
  /\ subs' = [subs EXCEPT ![race.wsub].state = "fired"]
  /\ boundBy' = race.wsub
  /\ cleared' = FALSE
  /\ race' = [race EXCEPT !.w = "idle", !.wsub = 0, !.wval = EmptyWeak]
  /\ UNCHANGED <<Args, stileAlive, masterRefs, heap, ctxAlive, factory, nLeash, current>>
  /\ UNCHANGED callVars

\* Callback i finds its context dead and returns without a store.
NotifyStale(i) ==
  /\ race.w = "idle"
  /\ i \in DOMAIN subs
  /\ ~NotifyLocks(i)
  /\ Notify(i)

\* AutoFilter's lock() loads the control block.
AutoFilterBegin(k) ==
  /\ stileAlive
  /\ frame[k] = "ready"
  /\ \A j \in Calls : frame[j] # "inCall"
  /\ race.r = "idle"
  /\ race' = [race EXCEPT !.r = "mid", !.rcall = k, !.rdone = FALSE,
                          !.rval = [ptr |-> NoFactory, ctrl |-> m_slave_factory.ctrl]]
  /\ UNCHANGED <<Args, stileAlive, masterRefs, heap, frame, master_packet, slave_packet, master_data, writes>>
  /\ UNCHANGED bindVars

\* lock() loads the pointer, and AutoFilter goes on with what it has read.
AutoFilterEnd ==
  /\ race.r = "mid"
  /\ LET w == [race.rval EXCEPT !.ptr = m_slave_factory.ptr] IN
       /\ race' = [race EXCEPT !.r = "idle", !.rcall = 0, !.rdone = TRUE, !.rval = w]
       /\ AutoFilterBody(race.rcall, w)

NextRace ==
  \/ \E c \in Contexts : AddFactory(c)
  \/ \E c \in Contexts : TearDown(c)
  \/ \E c \in Contexts : DestroyFactory(c)
  \/ \E c \in Contexts : LeashBegin(c)
  \/ LeashEnd
  \/ \E i \in 1..(MaxLeash + 1) : NotifyBegin(i)
  \/ NotifyEnd
  \/ \E i \in 1..(MaxLeash + 1) : NotifyStale(i)
  \/ \E k \in Calls, v \in TypeVals("Int") : MasterDecorate(k, v)
  \/ \E k \in Calls : AutoFilterBegin(k)
  \/ AutoFilterEnd
  \/ \E k \in Calls : AutoFilterReturn(k)

SpecRace == Init /\ [][NextRace]_vars

\* The life of the stile against the callbacks it has registered.
NextLife ==
  \/ \E c \in Contexts : AddFactory(c)
  \/ \E c \in Contexts : TearDown(c)
  \/ \E c \in Contexts : Leash(c)
  \/ \E i \in 1..(MaxLeash + 1) : Notify(i)
  \/ DestroyStile

SpecLife == Init /\ [][NextLife]_vars

\* The data flow of the calls: the stile is leashed by its constructor only.
NextFlow ==
  \/ \E c \in Contexts : AddFactory(c)
  \/ \E i \in 1..(MaxLeash + 1) : Notify(i)
  \/ \E k \in Calls, v \in TypeVals("Int") : MasterDecorate(k, v)
  \/ \E k \in Calls, v \in SharedVals : MasterMutate(k, v)
  \/ \E k \in Calls : AutoFilter(k)
  \/ \E k \in Calls : AutoFilterReturn(k)
  \/ \E k \in Calls : MasterRelease(k)
  \/ \E k \in Calls, t \in Types, v \in {1, 314, 271} : SlaveDecorate(k, t, v)
  \/ \E k \in Calls, v \in TypeVals("Float") : SlaveMutate(k, v)
  \/ \E k \in Calls, j \in 1..3 : ExtractFire(k, j)
  \/ \E k \in Calls : SlaveFinalize(k)
  \/ \E k \in Calls : SlaveDestroy(k)

SpecFlow == Init /\ [][NextFlow]_vars

\* ================================================================ claims
\* The factory reference is unresolved or expired.
Unbound ==
  \/ m_slave_factory.ctrl = NoFactory
  \/ factory[m_slave_factory.ctrl] # "live"

\* Call k made a slave packet.
Created(k) == slave_packet[k].from # NoFactory

\* The decorations master packet k owns by itself.
MasterOwn(k) ==
  [t \in Types |->
     IF frame[k] = "idle" THEN Absent
     ELSE IF t = "Int" THEN 7 ELSE IF t = "Ptr" THEN k ELSE Absent]

Outputs == {i \in DOMAIN Args : Args[i].dir = "out"}

CountKind(recips, kind) == Cardinality({j \in DOMAIN recips : recips[j].kind = kind})

\* C1: rebind replaces, never merges: the factory reference is only ever assigned
\* by the callback of the latest Leash, never by the callback of a Leash that a
\* later Leash has superseded.
C1_RebindReplaces == boundBy \in {0, current}

\* C2: no-op when unbound: an AutoFilter call made while the factory reference is
\* unresolved or expired creates no slave packet, installs no recipient and
\* leaves the master packet's decorations as they were.
C2_NoOpWhenUnbound ==
  [][\A k \in Calls :
       (Unbound /\ AutoFilter(k)) =>
         /\ frame'[k] = "noop"
         /\ slave_packet' = slave_packet
         /\ slave_packet[k] = NoPacket
         /\ master_packet' = master_packet
         /\ master_data' = master_data]_vars

\* An unbound call has returned while the factory reference was expired.
C2_Witness ==
  \E k \in Calls :
    /\ frame[k] = "noop"
    /\ m_slave_factory.ctrl # NoFactory
    /\ factory[m_slave_factory.ctrl] = "dead"

\* C3: forward-all exclusivity: a bound call installs the catch-all recipient iff
\* no Output parameter is declared (the empty list included); with it the
\* finalized slave packet's decorations are all on the master packet, and with
\* an Output parameter the master packet keeps exactly its own decorations.
C3_ForwardAllExclusive ==
  \A k \in Calls :
    Created(k) =>
      /\ CountKind(slave_packet[k].recips, "forward") = (IF Outputs = {} THEN 1 ELSE 0)
      /\ Outputs # {} => master_packet[k] = MasterOwn(k)
      /\ (Outputs = {} /\ slave_packet[k].final) =>
           \A t \in Types : slave_packet[k].decs[t] # Absent => master_packet[k][t] # Absent

\* The empty parameter list: the slave's decoration has been merged into the master.
C3_Witness ==
  \E k \in Calls :
    /\ Args = << >>
    /\ slave_packet[k].final
    /\ master_packet[k]["Float"] # Absent

\* C5: a dead context leaves the stile unbound: Leash on a dead context registers
\* no callback and leaves the factory reference empty, and a callback that finds
\* its context dead leaves the factory reference as it was.
C5_DeadContext ==
  [][/\ \A c \in Contexts :
          (Leash(c) /\ ~ctxAlive[c]) => (subs' = subs /\ m_slave_factory' = EmptyWeak)
     /\ \A i \in DOMAIN subs :
          (Notify(i) /\ ~ctxAlive[subs[i].ctx]) =>
             (m_slave_factory' = m_slave_factory /\ (Unbound => Unbound'))]_vars

\* A callback has run on a dead context whose factory is still alive, and the
\* stile is unbound.
C5_Witness ==
  \E i \in DOMAIN subs :
    /\ subs[i].state = "stale"
    /\ factory[subs[i].ctx] = "live"
    /\ m_slave_factory = EmptyWeak

\* C6: Leash clears first: from a Leash until the next callback runs the factory
\* reference is empty, and every AutoFilter call in between is a no-op.
C6_LeashClears ==
  /\ [](cleared => m_slave_factory = EmptyWeak)
  /\ [][\A k \in Calls : (cleared /\ AutoFilter(k)) =>
          (frame'[k] = "noop" /\ slave_packet' = slave_packet)]_vars

\* A callback had bound the stile to a factory that is still alive, Leash was
\* called, and a call made since then was a no-op.
C6_Witness ==
  /\ cleared
  /\ nLeash > 0
  /\ \E i \in DOMAIN subs : subs[i].state = "fired" /\ FindByTypeRecursive(subs[i].ctx) # NoFactory
  /\ \E k \in Calls : frame[k] = "noop"

\* Callback i belongs to the latest Leash, its context is alive and a factory is
\* available to it, and it has not run yet.
C7_Pending(i) ==
  /\ i \in DOMAIN subs
  /\ current = i
  /\ subs[i].state = "pending"
  /\ ctxAlive[subs[i].ctx]
  /\ Autowired(subs[i].ctx)

\* Callback i has bound the stile to the factory found from its context.
C7_BoundTo(i) ==
  /\ i \in DOMAIN subs
  /\ boundBy = i
  /\ Lock(m_slave_factory) # NoFactory
  /\ Lock(m_slave_factory) = FindByTypeRecursive(subs[i].ctx)

Extractors(k, i) ==
  {j \in DOMAIN slave_packet[k].recips :
     slave_packet[k].recips[j].kind = "extract" /\ slave_packet[k].recips[j].arg = i}

\* C8: the (InputInt, auto_out<Float>) scenario: the slave packet is decorated
\* with the master's 7, the master's output destination equals the Float the
\* slave published once the extraction has fired, and the master packet
\* receives none of the slave's decorations.
C8_Scenario ==
  Args = <<InInt, OutFloat>> =>
    \A k \in Calls :
      Created(k) =>
        /\ slave_packet[k].decs["Int"] = 7
        /\ master_packet[k] = MasterOwn(k)
        /\ \A j \in Extractors(k, 2) :
             slave_packet[k].recips[j].state = "fired" =>
               master_data[k][2] = slave_packet[k].recips[j].val

C10_CopyNotAlias ==
  \A k \in Calls : \A i \in Outputs : \A j \in Extractors(k, i) :
    slave_packet[k].recips[j].state = "fired" =>
      master_data[k][i] = slave_packet[k].recips[j].val

\* C4: atomic rebind: the weak_ptr value a lock() in AutoFilter has read is one
\* that Leash or a callback stored whole.  Each of them stores a pointer and the
\* control block of the same factory (or two nulls), so the value read is the
\* one before or the one after a store iff its two words agree.
C4_AtomicRead == race.rdone => race.rval.ptr = race.rval.ctrl

\* C11: input sharing: the decoration a bound call puts on the slave packet for a
\* shared input refers to the very object the master's reference refers to, so
\* the slave sees the value reachable through the master's reference, and the
\* master packet still holds its reference, during the call and after it.
C11_InputSharing ==
  \A k \in Calls :
    (Created(k) /\ \E i \in DOMAIN Args : Args[i] = InShared) =>
      /\ master_packet[k]["Ptr"] = k
      /\ slave_packet[k].decs["Ptr"] = master_packet[k]["Ptr"]
      /\ heap[slave_packet[k].decs["Ptr"]] = heap[master_packet[k]["Ptr"]]

\* The call has returned, the master has changed the shared object since it was
\* made, and the slave packet refers to that object.
C11_Witness ==
  \E k \in Calls :
    /\ Args = <<InShared>>
    /\ frame[k] = "returned"
    /\ slave_packet[k].decs["Ptr"] = k
    /\ heap[k] = 8

\* C12: the master packet is kept alive by the forwarding closure: while a
\* forward-all recipient installed by ForwardStile has neither fired nor been
\* dropped with its slave packet, the closure is one of the holders of the
\* master packet, so the master packet is alive whenever ForwardAll can run.
C12_ClosureKeepsMaster ==
  \A k \in Calls :
    HasPending(slave_packet[k].recips, "forward") =>
      /\ "closure" \in masterRefs[k]
      /\ MasterAlive(k)

\* AutoFilter has returned and the master pipeline has released the packet: the
\* pending forward-all closure is the only holder left.
C12_Witness ==
  \E k \in Calls :
    /\ HasPending(slave_packet[k].recips, "forward")
    /\ frame[k] = "returned"
    /\ masterRefs[k] = {"closure"}

\* C13: AutoFilter never blocks on the slave: a call that has made its slave
\* packet and added its decorations and recipients can always return, whatever
\* the slave pipeline has or has not done; and an unbound call is over at once.
C13_NeverBlocks ==
  \A k \in Calls :
    /\ frame[k] = "inCall" => ENABLED AutoFilterReturn(k)
    /\ frame[k] = "noop" => slave_packet[k] = NoPacket

\* The call has returned while the slave pipeline has done nothing: the packet is
\* not finalized, no recipient has fired and the declared output is not there.
C13_Witness ==
  \E k \in Calls :
    /\ frame[k] = "returned"
    /\ Args = <<InInt, OutFloat>>
    /\ slave_packet[k].alive /\ ~slave_packet[k].final
    /\ slave_packet[k].decs["Float"] = Absent
    /\ \A j \in DOMAIN slave_packet[k].recips : slave_packet[k].recips[j].state = "pending"

\* C14: the output destination is still valid when the extraction fires: at
\* every step in which an extraction recipient fires, the object its lambda
\* captured by reference is alive, also after AutoFilter has returned.
C14_DestinationValid ==
  [][\A k \in Calls, j \in 1..3 : ExtractFire(k, j) => DestinationAlive(k)]_vars

\* C15: per-invocation frame: no AutoFilter call, bound or unbound, changes
\* m_slave_factory or anything else on the binding side; an unbound call makes no
\* slave packet; a bound call makes exactly one slave packet, from the bound
\* factory, carrying one decoration per input argument and one extraction
\* recipient per output argument, and leaves the packets of other calls alone.
C15_PerInvocationFrame ==
  [][\A k \in Calls :
       AutoFilter(k) =>
         /\ UNCHANGED bindVars
         /\ \A j \in Calls \ {k} : slave_packet'[j] = slave_packet[j]
         /\ IF Unbound
            THEN slave_packet'[k] = slave_packet[k]
            ELSE /\ slave_packet[k] = NoPacket
                 /\ slave_packet'[k].from = m_slave_factory.ptr
                 /\ slave_packet'[k].alive
                 /\ \A t \in Types :
                      slave_packet'[k].decs[t] =
                        (IF \E i \in DOMAIN Args : Args[i] = [dir |-> "in", type |-> t]
                         THEN master_packet[k][t] ELSE Absent)
                 /\ \A i \in DOMAIN Args :
                      Cardinality({j \in DOMAIN slave_packet'[k].recips :
                                     /\ slave_packet'[k].recips[j].kind = "extract"
                                     /\ slave_packet'[k].recips[j].arg = i})
                        = (IF Args[i].dir = "out" THEN 1 ELSE 0)]_vars

\* A bound call on an input and an output is inside AutoFilter with its slave
\* packet made, and the factory reference is the one it locked.
C15_Witness ==
  \E k \in Calls :
    /\ Args = <<InInt, OutFloat>>
    /\ frame[k] = "inCall"
    /\ Created(k)
    /\ slave_packet[k].from = m_slave_factory.ptr
    /\ Len(slave_packet[k].recips) = 1

\* C16: abandoned slave packet: once the slave packet is destroyed, a recipient
\* that had not fired is dropped and never fires: the destination of a dropped
\* extraction was never written, a master packet whose forward-all recipient was
\* dropped holds only its own decorations, and nothing of that call changes
\* any more.
C16_Abandoned ==
  /\ [](\A k \in Calls :
          (Created(k) /\ ~slave_packet[k].alive) =>
            \A j \in DOMAIN slave_packet[k].recips :
              LET r == slave_packet[k].recips[j] IN
                /\ r.state \in {"fired", "dropped"}
                /\ (r.state = "dropped" /\ r.kind = "extract") =>
                     (writes[k][r.arg] = 0 /\ master_data[k][r.arg] = Absent)
                /\ (r.state = "dropped" /\ r.kind = "forward") =>
                     master_packet[k] = MasterOwn(k))
  /\ [][\A k \in Calls :
          (Created(k) /\ ~slave_packet[k].alive) =>
            /\ slave_packet'[k] = slave_packet[k]
            /\ writes'[k] = writes[k]
            /\ master_data'[k] = master_data[k]
            /\ master_packet'[k] = master_packet[k]]_vars

\* The slave published the Float and its packet was destroyed before the
\* extraction ran: the recipient is dropped and the destination is unset.
C16_Witness ==
  \E k \in Calls : \E i \in Outputs : \E j \in Extractors(k, i) :
    /\ ~slave_packet[k].alive
    /\ slave_packet[k].recips[j].state = "dropped"
    /\ slave_packet[k].decs[Args[i].type] # Absent
    /\ master_data[k][i] = Absent

\* C17: dropped, not queued: a call that returned as a no-op stays a no-op with
\* no slave packet and no forwarded data, also once the factory resolves; the
\* callback that stores the factory touches no call and no packet; and the
\* slave packets made are as many as the calls that found the stile bound.
C17_DroppedNotQueued ==
  /\ [](\A k \in Calls :
          frame[k] = "noop" =>
            (slave_packet[k] = NoPacket /\ master_packet[k] = MasterOwn(k)))
  /\ [](Cardinality({k \in Calls : Created(k)})
          = Cardinality({k \in Calls : frame[k] \in {"inCall", "returned"}}))
  /\ [][\A k \in Calls : frame[k] = "noop" => frame'[k] = "noop"]_vars
  /\ [][\A i \in DOMAIN subs : Notify(i) => UNCHANGED callVars]_vars

\* A call returned as a no-op, and the factory has resolved since: the stile is
\* bound and the call still has no slave packet.
C17_Witness ==
  \E k \in Calls :
    /\ frame[k] = "noop"
    /\ ~Unbound
    /\ boundBy # 0
    /\ slave_packet[k] = NoPacket

\* C18: non-owning factory reference: the factory of a torn-down context can be
\* destroyed whenever no AutoFilter call is running, whatever m_slave_factory
\* refers to; its destruction leaves m_slave_factory as it is and the stile
\* unbound; every call made while unbound is a no-op without a slave packet;
\* and only a callback that stores a factory makes the stile bound again.
C18_NonOwning ==
  /\ [](\A c \in Contexts :
          (~ctxAlive[c] /\ factory[c] = "live" /\ \A k \in Calls : frame[k] # "inCall")
            => ENABLED DestroyFactory(c))
  /\ [][\A c \in Contexts :
          (DestroyFactory(c) /\ m_slave_factory.ptr = c) =>
            (m_slave_factory' = m_slave_factory /\ Unbound')]_vars
  /\ [][\A k \in Calls :
          (AutoFilter(k) /\ Unbound) =>
            (frame'[k] = "noop" /\ slave_packet'[k] = NoPacket)]_vars
  /\ [][(Unbound /\ ~Unbound') =>
          \E i \in DOMAIN subs : Notify(i) /\ NotifyLocks(i)]_vars

\* A callback bound the stile, the factory was destroyed afterwards, and a
\* call made since was a no-op.
C18_Witness ==
  \E k \in Calls, i \in DOMAIN subs :
    /\ boundBy = i
    /\ subs[i].state = "fired"
    /\ m_slave_factory.ptr # NoFactory
    /\ factory[m_slave_factory.ptr] = "dead"
    /\ frame[k] = "noop"
    /\ slave_packet[k] = NoPacket

\* C19: no resolution callback touches a destroyed stile: in every step in
\* which a callback registered by Leash passes its check and assigns
\* m_slave_factory, the stile whose member it assigns still exists.
C19_CallbackOnLiveStile ==
  [][\A i \in DOMAIN subs : (Notify(i) /\ NotifyLocks(i)) => stileAlive]_vars

====
